---- MODULE Spec2Model ----
(***************************************************************************)
(* A model of the 4-operator FM synthesizer of src/src/App.js: the engine  *)
(* (Operator, FMSynth, the activeNotes registry) and the App handlers that  *)
(* feed it (initAudio, updateOperator, updateAlgorithm, handleImport).      *)
(*                                                                          *)
(* Units.  Time is counted in hundredths of a second (0.5 s = 50), gains    *)
(* and levels in hundredths (1.0 = 100).  A JSON number too large for a     *)
(* double (1e999) parses to a non-finite number: Infinity stands for it.    *)
(***************************************************************************)
EXTENDS Integers, Sequences, FiniteSets, TLC

VARIABLES
    isInitialized,   \* App: useState(false); synthRef.current exists iff TRUE
    patch,           \* App: useState(initialPatch), the React patch state
    synthPatch,      \* FMSynth.patch (this.patch), NoPatch while null
    masterGain,      \* FMSynth.masterGain.gain.value, NoGain before the engine
    ctxState,        \* AudioContext.state
    currentTime,     \* AudioContext.currentTime
    activeNotes,     \* the module-level Map  note -> noteOperators
    voices,          \* every noteOperators array ever allocated by noteOn
    exported,        \* the file fm-patch.json of the last export
    pc,              \* where the control thread is inside noteOff, or Idle
    octaveOffset,    \* App: useState(0), the octave of the keyboard
    keyMap,          \* App: the Map of the keys that are down (line 363)
    held,            \* per key of the computer and per key under the mouse:
                     \* the note that its press forwarded, NoNote when it is up
    event,           \* the last handler that ran, its argument and outcome
    steps            \* how many handlers and clock advances have run

vars == <<isInitialized, patch, synthPatch, masterGain, ctxState, currentTime,
          activeNotes, voices, exported, pc, octaveOffset, keyMap, held,
          event, steps>>

----------------------------------------------------------------------------
(* Bounds of the model *)

\* handler calls and clock advances, over a whole behaviour
MaxSteps == 6

----------------------------------------------------------------------------
(* Numbers *)

\* a non-finite double, as JSON.parse gives for 1e999
Infinity == 1000000
IsFinite(x) == x < Infinity
Plus(a, b) == IF IsFinite(a) /\ IsFinite(b) THEN a + b ELSE Infinity
Times(a, b) == IF IsFinite(a) /\ IsFinite(b) THEN a * b ELSE Infinity

\* envelope peak 1.0 (line 42), in hundredths
One == 100
\* the modulation index constant (line 108)
ModIndex == 5000
\* the tail margin 0.5 s of osc.stop (line 56), in hundredths of a second
StopMargin == 50
\* the audio clock advances in steps of 0.5 s
TickStep == 50
\* the control thread is in no handler
Idle == [call |-> "none"]
\* stopAt of an oscillator on which stop() was never called
NoStop == -1

\* the master gain while no engine exists
NoGain == 0 - 1

\* this.masterGain.gain.value = 0.5 (line 68), in hundredths
MasterGainValue == 50
\* activeNotes.get of a note that is not a key of the Map
NoVoice == 0
\* this.patch = null
NoPatch == [isNull |-> TRUE]

\* the final note numbers handed to the engine
Notes == {60, 61}

----------------------------------------------------------------------------
(* Patch data *)

\* the parameters of one operator; ratio in hundredths, detune as it is
\* (the waveform, which no handler computes with, is left out)
OpParams(on, ratio, detune, level, attack, decay, sustain, release) ==
    [on |-> on, ratio |-> ratio, detune |-> detune, level |-> level,
     attack |-> attack, decay |-> decay, sustain |-> sustain,
     release |-> release]

\* initialPatch: attack 0.01, decay 0.3, sustain 0.8, release 0.5
initialPatch ==
    [algorithm |-> 1,
     masterGain |-> 50,
     operators |-> << OpParams(TRUE, 100, 0, 80, 1, 30, 80, 50),
                      OpParams(TRUE, 100, 0, 50, 1, 30, 80, 50),
                      OpParams(FALSE, 500, 0, 40, 1, 30, 80, 50),
                      OpParams(TRUE, 100, 0, 99, 1, 30, 80, 50) >>]

----------------------------------------------------------------------------
(* AudioParam automation of env.gain: a timeline of events *)

SetEvent(v, t) == [kind |-> "set", value |-> v, time |-> t]
RampEvent(v, t) == [kind |-> "ramp", value |-> v, time |-> t]

\* gain.cancelScheduledValues(t): drops every event at or after t
cancelScheduledValues(events, t) == SelectSeq(events, LAMBDA e : e.time < t)

\* the value of the timeline at time t; 0 (env.gain.value = 0) before any event
RECURSIVE ValueFrom(_, _, _, _)
ValueFrom(events, i, t, cur) ==
    IF i > Len(events) THEN cur
    ELSE LET e == events[i] IN
         IF e.time <= t THEN ValueFrom(events, i + 1, t, e.value)
         ELSE IF e.kind = "ramp" /\ i > 1
              THEN LET p == events[i - 1] IN
                   p.value + ((e.value - p.value) * (t - p.time)) \div (e.time - p.time)
              ELSE cur

\* the gain of a node that has been left at the default of createGain
GainValueFromDefault(events, t) == ValueFrom(events, 1, t, One)

\* gain.value as the control thread reads it at time t; the constructor has
\* set it to 0 (line 24)
GainValue(events, t) == ValueFrom(events, 1, t, 0)

----------------------------------------------------------------------------
(* Frequencies *)

\* the unit of a base frequency: 1 Hz is 64000, so that the lowest octave
\* and the thousandths of a semitone factor are whole numbers
Hz == 64000

\* Math.pow(2, k / 12) for k in 0..11, in thousandths
Semitone(k) ==
    << 1000, 1059, 1122, 1189, 1260, 1335, 1414, 1498, 1587, 1682, 1782, 1888 >>[k + 1]

\* the base frequency counted from middle C instead of A4
BaseFreqFromMiddleC(note) ==
    440 * Semitone((note - 60) % 12) * 2 ^ (((note - 60) \div 12) + 6)

\* baseFreq (line 83): 440 * Math.pow(2, (note - 69) / 12), the power as the
\* semitone factor of (note - 69) mod 12 times 2 to the whole octaves
BaseFreq(note) ==
    440 * Semitone((note - 69) % 12) * 2 ^ (((note - 69) \div 12) + 6)

\* params.ratio * (1 + params.detune / 1000) (line 92), in hundred-thousandths
Tuning(params) == params.ratio * (1000 + params.detune)

\* freq (line 92) is baseFreq times the tuning; the product is kept as its
\* two factors, whole numbers both
OscFrequency(baseFreq, params) == [base |-> baseFreq, tuning |-> Tuning(params)]

\* frequency.setValueAtTime (line 94) takes finite numbers only
FreqIsFinite(params) == IsFinite(params.ratio) /\ IsFinite(params.detune)

----------------------------------------------------------------------------
(* class Operator *)

\* new Operator(context): gain 0, nothing scheduled, oscillator started at
\* the default frequency of an OscillatorNode, 440 Hz
NewOperator ==
    [env |-> <<>>, stopAt |-> NoStop, freq |-> [base |-> 440 * Hz, tuning |-> 100000]]

\* scheduleEnvelope with an attack that ramps to the sustain level
scheduleEnvelopeNoPeak(op, params, now) ==
    LET v  == GainValue(op.env, now)
        e1 == Append(cancelScheduledValues(op.env, now), SetEvent(v, now))
        tA == Plus(now, params.attack)
        e2 == Append(e1, RampEvent(params.sustain, tA))
        tD == Plus(tA, params.decay)
        e3 == Append(e2, RampEvent(params.sustain, tD))
    IN  IF ~IsFinite(tA) \/ ~IsFinite(params.sustain)
        THEN [op |-> [op EXCEPT !.env = e1], threw |-> TRUE]
        ELSE IF ~IsFinite(tD)
             THEN [op |-> [op EXCEPT !.env = e2], threw |-> TRUE]
             ELSE [op |-> [op EXCEPT !.env = e3], threw |-> FALSE]

\* Operator.scheduleEnvelope(params): the AudioParam calls in order; a call
\* with a non-finite argument throws a TypeError and the rest is skipped
scheduleEnvelope(op, params, now) ==
    LET v  == GainValue(op.env, now)
        e1 == Append(cancelScheduledValues(op.env, now), SetEvent(v, now))
        tA == Plus(now, params.attack)
        e2 == Append(e1, RampEvent(One, tA))
        tD == Plus(tA, params.decay)
        e3 == Append(e2, RampEvent(params.sustain, tD))
    IN  IF ~IsFinite(tA) THEN [op |-> [op EXCEPT !.env = e1], threw |-> TRUE]
        ELSE IF ~IsFinite(params.sustain) \/ ~IsFinite(tD)
             THEN [op |-> [op EXCEPT !.env = e2], threw |-> TRUE]
             ELSE [op |-> [op EXCEPT !.env = e3], threw |-> FALSE]

\* a stop without the tail margin
StopOscNoMargin(op, when, now) ==
    IF op.stopAt # NoStop /\ op.stopAt <= now THEN op.stopAt ELSE when - StopMargin

\* osc.stop(when) inside try/catch: the last call wins unless the oscillator
\* has already stopped, and then the call changes nothing
StopOsc(op, when, now) ==
    IF op.stopAt # NoStop /\ op.stopAt <= now THEN op.stopAt ELSE when

\* Operator.triggerRelease(params)
triggerRelease(op, params, now) ==
    LET v  == GainValue(op.env, now)
        e1 == Append(cancelScheduledValues(op.env, now), SetEvent(v, now))
        tR == Plus(now, params.release)
        e2 == Append(e1, RampEvent(0, tR))
    IN  IF ~IsFinite(tR) THEN [op |-> [op EXCEPT !.env = e1], threw |-> TRUE]
        ELSE [op |-> [op EXCEPT !.env = e2,
                                !.stopAt = StopOsc(op, tR + StopMargin, now)],
              threw |-> FALSE]

\* an oscillator renders from osc.start() until its stop time
Running(op, now) == op.stopAt = NoStop \/ now < op.stopAt

----------------------------------------------------------------------------
(* class FMSynth: noteOn *)

\* the destination of a carrier connection: this.masterGain (line 125)
Master == 4

\* params.on as a condition: undefined (the property is missing) is falsy
IsOn(params) == "on" \in DOMAIN params /\ params.on

\* noteOperators.forEach of noteOn (lines 88-96), from operator i on: the
\* operators that are off are skipped, an operator that is on has its
\* frequency set and its envelope scheduled, the first throw ends the loop
RECURSIVE ScheduleOps(_, _, _, _, _)
ScheduleOps(ops, opParams, baseFreq, i, now) ==
    IF i > Len(ops) THEN [ops |-> ops, threw |-> FALSE]
    ELSE IF ~IsOn(opParams[i]) THEN ScheduleOps(ops, opParams, baseFreq, i + 1, now)
    ELSE IF ~FreqIsFinite(opParams[i]) THEN [ops |-> ops, threw |-> TRUE]
    ELSE LET tuned == [ops[i] EXCEPT !.freq = OscFrequency(baseFreq, opParams[i])]
             r == scheduleEnvelope(tuned, opParams[i], now)
         IN  IF r.threw THEN [ops |-> [ops EXCEPT ![i] = r.op], threw |-> TRUE]
             ELSE ScheduleOps([ops EXCEPT ![i] = r.op], opParams, baseFreq, i + 1, now)

ModCall(modIndex, carIndex) == [kind |-> "mod", src |-> modIndex, dst |-> carIndex]
CarCall(carIndex) == [kind |-> "car", src |-> carIndex, dst |-> Master]

\* the switch without its default label: an unknown algorithm connects nothing
AlgorithmCallsNoDefault(algorithm) ==
    CASE algorithm = 1 -> << ModCall(0, 1), ModCall(1, 2), ModCall(2, 3), CarCall(3) >>
      [] algorithm = 2 -> << ModCall(0, 1), CarCall(1), ModCall(2, 3), CarCall(3) >>
      [] algorithm = 3 -> << ModCall(0, 2), ModCall(1, 2), ModCall(2, 3), CarCall(3) >>
      [] algorithm = 4 -> << ModCall(0, 3), ModCall(1, 3), ModCall(2, 3), CarCall(3) >>
      [] algorithm = 5 -> << ModCall(0, 1), CarCall(1), CarCall(2), CarCall(3) >>
      [] algorithm = 6 -> << CarCall(0), CarCall(1), CarCall(2), CarCall(3) >>
      [] OTHER         -> << >>

\* the switch on algorithm (lines 128-166): the calls of each case in order
AlgorithmCalls(algorithm) ==
    CASE algorithm = 1 -> << ModCall(0, 1), ModCall(1, 2), ModCall(2, 3), CarCall(3) >>
      [] algorithm = 2 -> << ModCall(0, 1), CarCall(1), ModCall(2, 3), CarCall(3) >>
      [] algorithm = 3 -> << ModCall(0, 2), ModCall(1, 2), ModCall(2, 3), CarCall(3) >>
      [] algorithm = 4 -> << ModCall(0, 3), ModCall(1, 3), ModCall(2, 3), CarCall(3) >>
      [] algorithm = 5 -> << ModCall(0, 1), CarCall(1), CarCall(2), CarCall(3) >>
      [] OTHER         -> << CarCall(0), CarCall(1), CarCall(2), CarCall(3) >>

\* modGain.gain.value (line 108)
ModGainValue(opParams, modIndex) == Times(opParams[modIndex + 1].level, ModIndex)

\* the carrier gain scaled as a modulation depth
CarGainValueScaled(opParams, carIndex) == Times(opParams[carIndex + 1].level, ModIndex)

\* carGain.gain.value (line 122)
CarGainValue(opParams, carIndex) == opParams[carIndex + 1].level

\* connectModulator without the test of the carrier's on flag
connectModulatorAnyCarrier(conns, opParams, modIndex, carIndex) ==
    IF ~IsOn(opParams[modIndex + 1])
    THEN [conns |-> conns, threw |-> FALSE]
    ELSE LET g == ModGainValue(opParams, modIndex) IN
         IF ~IsFinite(g) THEN [conns |-> conns, threw |-> TRUE]
         ELSE [conns |-> conns \cup {[kind |-> "mod", src |-> modIndex,
                                      dst |-> carIndex, gain |-> g]},
               threw |-> FALSE]

\* connectModulator (lines 100-112): setting gain.value to a non-finite
\* number throws before anything is connected
connectModulator(conns, opParams, modIndex, carIndex) ==
    IF ~IsOn(opParams[modIndex + 1]) \/ ~IsOn(opParams[carIndex + 1])
    THEN [conns |-> conns, threw |-> FALSE]
    ELSE LET g == ModGainValue(opParams, modIndex) IN
         IF ~IsFinite(g) THEN [conns |-> conns, threw |-> TRUE]
         ELSE [conns |-> conns \cup {[kind |-> "mod", src |-> modIndex,
                                      dst |-> carIndex, gain |-> g]},
               threw |-> FALSE]

\* connectCarrier (lines 115-126)
connectCarrier(conns, opParams, carIndex) ==
    IF ~IsOn(opParams[carIndex + 1])
    THEN [conns |-> conns, threw |-> FALSE]
    ELSE LET g == CarGainValue(opParams, carIndex) IN
         IF ~IsFinite(g) THEN [conns |-> conns, threw |-> TRUE]
         ELSE [conns |-> conns \cup {[kind |-> "car", src |-> carIndex,
                                      dst |-> Master, gain |-> g]},
               threw |-> FALSE]

\* the calls of one case of the switch, from call i on
RECURSIVE Route(_, _, _, _)
Route(calls, i, conns, opParams) ==
    IF i > Len(calls) THEN [conns |-> conns, threw |-> FALSE]
    ELSE LET c == calls[i]
             r == IF c.kind = "mod"
                  THEN connectModulator(conns, opParams, c.src, c.dst)
                  ELSE connectCarrier(conns, opParams, c.src)
         IN  IF r.threw THEN r ELSE Route(calls, i + 1, r.conns, opParams)

\* the guard of noteOn forgotten
HasNever(note) == FALSE

\* the guard of noteOn asking for another key than the note
HasOtherNote(note) == \E m \in Notes \ {note} : activeNotes[m] # NoVoice

\* activeNotes.has(note) (line 81)
Has(note) == activeNotes[note] # NoVoice

\* a lookup that falls back on some live voice when the note has none
GetOrAny(note) ==
    IF activeNotes[note] # NoVoice THEN activeNotes[note]
    ELSE IF \E n \in Notes : activeNotes[n] # NoVoice
         THEN activeNotes[CHOOSE n \in Notes : activeNotes[n] # NoVoice]
         ELSE NoVoice

\* a lookup that gives the first voice ever registered for every live note
GetFirst(note) == IF activeNotes[note] # NoVoice THEN 1 ELSE NoVoice

\* activeNotes.get(note) (line 172); NoVoice stands for undefined
Get(note) == activeNotes[note]

\* the noteOperators array of noteOn and what was built on it, with the note
\* and the patch of the call; live from activeNotes.set to activeNotes.delete
NewVoice(note, p, ops, conns, registered) ==
    [note |-> note, ops |-> ops, conns |-> conns, onPatch |-> p,
     onTime |-> currentTime, live |-> registered, offDone |-> FALSE,
     offTime |-> NoStop]

\* context.resume() when there is no patch or the context is suspended
\* (lines 78-80)
Resume ==
    ctxState' = IF synthPatch = NoPatch \/ ctxState = "suspended"
                THEN "running" ELSE ctxState

\* FMSynth.noteOn(note) (lines 77-169)
noteOn(note) ==
    /\ isInitialized
    /\ Resume
    /\ IF Has(note)
       THEN /\ UNCHANGED <<activeNotes, voices>>
            /\ event' = [op |-> "noteOn", arg |-> note, result |-> "ignored"]
       ELSE LET fresh == [i \in 1..4 |-> NewOperator]
                opParams == synthPatch.operators
                sched == ScheduleOps(fresh, opParams, BaseFreq(note), 1, currentTime)
                routed == IF sched.threw THEN [conns |-> {}, threw |-> TRUE]
                          ELSE Route(AlgorithmCalls(synthPatch.algorithm), 1, {}, opParams)
            IN  /\ voices' = Append(voices, NewVoice(note, synthPatch, sched.ops,
                                                     routed.conns, ~routed.threw))
                /\ activeNotes' = IF routed.threw THEN activeNotes
                                  ELSE [activeNotes EXCEPT ![note] = Len(voices) + 1]
                /\ event' = [op |-> "noteOn", arg |-> note,
                             result |-> IF routed.threw THEN "threw" ELSE "done"]
    /\ steps' = steps + 1
    /\ UNCHANGED <<isInitialized, patch, synthPatch, masterGain, currentTime, exported, pc,
                   octaveOffset>>

----------------------------------------------------------------------------
(* class FMSynth: noteOff *)

\* noteOperators.forEach of noteOff (lines 175-180), from operator i on, with
\* the parameters of this.patch as it is when noteOff runs
RECURSIVE ReleaseOps(_, _, _, _)
ReleaseOps(ops, opParams, i, now) ==
    IF i > Len(ops) THEN [ops |-> ops, threw |-> FALSE]
    ELSE IF ~IsOn(opParams[i]) THEN ReleaseOps(ops, opParams, i + 1, now)
    ELSE LET r == triggerRelease(ops[i], opParams[i], now) IN
         IF r.threw THEN [ops |-> [ops EXCEPT ![i] = r.op], threw |-> TRUE]
         ELSE ReleaseOps([ops EXCEPT ![i] = r.op], opParams, i + 1, now)

\* FMSynth.noteOff(note) (lines 171-183)
noteOff(note) ==
    /\ isInitialized
    /\ LET v == Get(note) IN
       IF v = NoVoice
       THEN /\ UNCHANGED <<activeNotes, voices>>
            /\ event' = [op |-> "noteOff", arg |-> note, result |-> "ignored"]
       ELSE LET r == ReleaseOps(voices[v].ops, synthPatch.operators, 1, currentTime)
            IN  IF r.threw
                THEN /\ voices' = [voices EXCEPT ![v].ops = r.ops]
                     /\ UNCHANGED activeNotes
                     /\ event' = [op |-> "noteOff", arg |-> note, result |-> "threw"]
                ELSE /\ voices' = [voices EXCEPT ![v].ops = r.ops,
                                                 ![v].live = FALSE,
                                                 ![v].offDone = TRUE,
                                                 ![v].offTime = currentTime]
                     /\ activeNotes' = [activeNotes EXCEPT ![note] = NoVoice]
                     /\ event' = [op |-> "noteOff", arg |-> note, result |-> "done"]
    /\ steps' = steps + 1
    /\ UNCHANGED <<isInitialized, patch, synthPatch, masterGain, ctxState, currentTime, exported, pc,
                   octaveOffset>>

----------------------------------------------------------------------------
(* noteOff call by call, beside the rendering thread *)

\* the first operator from i on that is on in this.patch, 5 when there is none
RECURSIVE NextOn(_)
NextOn(i) ==
    IF i > 4 THEN 5
    ELSE IF IsOn(synthPatch.operators[i]) THEN i ELSE NextOn(i + 1)

\* the control thread of noteOff(note) before the forEach body of the next
\* operator from i on that is on, or before activeNotes.delete; value is what
\* gain.value of that operator returns, the gain of the last render quantum
AtOperator(note, v, i) ==
    LET j == NextOn(i) IN
    [note |-> note, v |-> v, i |-> j,
     call |-> IF j > 4 THEN "delete" ELSE "cancel",
     value |-> IF j > 4 THEN 0 ELSE GainValue(voices[v].ops[j].env, currentTime)]

\* noteOff(note) up to its forEach (lines 171-175)
noteOffBegin(note) ==
    /\ isInitialized
    /\ pc = Idle
    /\ IF Get(note) = NoVoice
       THEN /\ pc' = Idle
            /\ event' = [op |-> "noteOff", arg |-> note, result |-> "ignored"]
       ELSE /\ pc' = AtOperator(note, Get(note), 1)
            /\ event' = [op |-> "noteOff", arg |-> note, result |-> "running"]
    /\ steps' = steps + 1
    /\ UNCHANGED <<isInitialized, patch, synthPatch, masterGain, ctxState, currentTime,
                   activeNotes, voices, exported, octaveOffset>>

\* the next call of the noteOff that is running: the calls of triggerRelease
\* on the AudioParam and the oscillator (lines 51, 52, 53, 56), each of them
\* applied when it is made, and at the end activeNotes.delete (line 182)
ReleaseCall ==
    /\ pc # Idle
    /\ LET v   == pc.v
           i   == pc.i
           now == currentTime
           tR  == Plus(now, synthPatch.operators[i].release)
           running == [op |-> "noteOff", arg |-> pc.note, result |-> "running"]
       IN  CASE pc.call = "cancel" ->
                  /\ voices' = [voices EXCEPT
                                   ![v].ops[i].env = cancelScheduledValues(@, now)]
                  /\ pc' = [pc EXCEPT !.call = "set"]
                  /\ event' = running
                  /\ UNCHANGED activeNotes
             [] pc.call = "set" ->
                  /\ voices' = [voices EXCEPT
                                   ![v].ops[i].env = Append(@, SetEvent(pc.value, now))]
                  /\ pc' = [pc EXCEPT !.call = "ramp"]
                  /\ event' = running
                  /\ UNCHANGED activeNotes
             [] pc.call = "ramp" ->
                  IF ~IsFinite(tR)
                  THEN /\ pc' = Idle
                       /\ event' = [op |-> "noteOff", arg |-> pc.note, result |-> "threw"]
                       /\ UNCHANGED <<activeNotes, voices>>
                  ELSE /\ voices' = [voices EXCEPT
                                        ![v].ops[i].env = Append(@, RampEvent(0, tR))]
                       /\ pc' = [pc EXCEPT !.call = "stop"]
                       /\ event' = running
                       /\ UNCHANGED activeNotes
             [] pc.call = "stop" ->
                  /\ voices' = [voices EXCEPT
                                   ![v].ops[i].stopAt =
                                       StopOsc(voices[v].ops[i], tR + StopMargin, now)]
                  /\ pc' = AtOperator(pc.note, v, i + 1)
                  /\ event' = running
                  /\ UNCHANGED activeNotes
             [] pc.call = "delete" ->
                  /\ voices' = [voices EXCEPT ![v].live = FALSE,
                                              ![v].offDone = TRUE,
                                              ![v].offTime = now]
                  /\ activeNotes' = [activeNotes EXCEPT ![pc.note] = NoVoice]
                  /\ pc' = Idle
                  /\ event' = [op |-> "noteOff", arg |-> pc.note, result |-> "done"]
    /\ UNCHANGED <<isInitialized, patch, synthPatch, masterGain, ctxState, currentTime,
                   exported, octaveOffset, steps>>

\* one render quantum of the audio thread: it reads the timeline of every
\* envelope as it is, and gain.value returns what it computed; a quantum is
\* shorter than the unit of time
Render ==
    /\ isInitialized
    /\ ctxState = "running"
    /\ pc' = IF pc # Idle /\ pc.call # "delete"
             THEN [pc EXCEPT !.value =
                      GainValue(voices[pc.v].ops[pc.i].env, currentTime)]
             ELSE pc
    /\ event' = [op |-> "render", arg |-> 0, result |-> "done"]
    /\ UNCHANGED <<isInitialized, patch, synthPatch, masterGain, ctxState, currentTime,
                   activeNotes, voices, exported, octaveOffset, steps>>

----------------------------------------------------------------------------
(* App: rendering *)

\* the JSON value null where a number is expected
JSONnull == 0 - 2 * Infinity

\* the operator parameters that OperatorControls shows with toFixed
\* (lines 268-275)
Shown == {"ratio", "level", "attack", "decay", "sustain", "release"}

\* the render of App with patch p returns: toFixed of null or of a missing
\* property throws, and React then unmounts the whole tree
Renders(p) ==
    \A i \in 1..4 :
        /\ i \in DOMAIN p.operators
        /\ \A f \in Shown :
              f \in DOMAIN p.operators[i] /\ p.operators[i][f] # JSONnull

\* the tree is mounted, its buttons, inputs and listeners are there
Mounted == Renders(patch)

----------------------------------------------------------------------------
(* App: initAudio and the patch handlers *)

\* FMSynth.setPatch(patch) (lines 73-75)
\* a setPatch that takes the master gain from the patch
setPatchWithGain(p) ==
    /\ synthPatch' = p
    /\ masterGain' = IF "masterGain" \in DOMAIN p THEN p.masterGain ELSE masterGain

setPatch(p) ==
    /\ synthPatch' = p
    /\ UNCHANGED masterGain

\* useEffect(..., [patch]) (line 344): after a render with a new patch the
\* engine is handed that patch, when the engine exists
SyncPatch(p) ==
    IF isInitialized THEN setPatch(p) ELSE UNCHANGED <<synthPatch, masterGain>>

\* initAudio (lines 335-342); the browser's autoplay policy decides whether
\* the new context runs at once or waits, suspended, for resume()
initAudio ==
    /\ ~isInitialized
    /\ isInitialized' = TRUE
    /\ ctxState' \in {"running", "suspended"}
    /\ synthPatch' = patch
    /\ masterGain' = MasterGainValue
    /\ event' = [op |-> "initAudio", arg |-> 0, result |-> "done"]
    /\ steps' = steps + 1
    /\ UNCHANGED <<patch, currentTime, activeNotes, voices, exported, pc,
                   octaveOffset>>

\* updateOperator(opIndex, newParams) (line 388) and the effect that follows
updateOperator(opIndex, newParams) ==
    /\ isInitialized /\ Mounted
    /\ patch' = [patch EXCEPT !.operators[opIndex + 1] = newParams]
    /\ SyncPatch(patch')
    /\ event' = [op |-> "updateOperator", arg |-> 0, result |-> "done"]
    /\ steps' = steps + 1
    /\ UNCHANGED <<isInitialized, ctxState, currentTime, activeNotes, voices, exported, pc,
                   octaveOffset>>

\* the ON/OFF button of OperatorControls (line 259)
ToggleOn(id) ==
    updateOperator(id - 1, [patch.operators[id] EXCEPT !.on = ~IsOn(patch.operators[id])])

\* the Release slider of OperatorControls (line 275)
SlideRelease(id, value) ==
    updateOperator(id - 1, [patch.operators[id] EXCEPT !.release = value])

\* updateAlgorithm(algoId) (line 389) and the effect that follows
updateAlgorithm(algoId) ==
    /\ isInitialized /\ Mounted
    /\ patch' = [patch EXCEPT !.algorithm = algoId]
    /\ SyncPatch(patch')
    /\ event' = [op |-> "updateAlgorithm", arg |-> 0, result |-> "done"]
    /\ steps' = steps + 1
    /\ UNCHANGED <<isInitialized, ctxState, currentTime, activeNotes, voices, exported, pc,
                   octaveOffset>>

----------------------------------------------------------------------------
(* App: the keyboard *)

\* the octave buttons (lines 470-471); a button that is disabled does nothing
OctaveDown ==
    /\ isInitialized /\ Mounted
    /\ ~(octaveOffset <= 0 - 2)
    /\ octaveOffset' = IF octaveOffset - 1 < 0 - 2 THEN 0 - 2 ELSE octaveOffset - 1
    /\ event' = [op |-> "setOctaveOffset", arg |-> 0, result |-> "done"]
    /\ steps' = steps + 1
    /\ UNCHANGED <<isInitialized, patch, synthPatch, masterGain, ctxState, currentTime,
                   activeNotes, voices, exported, pc>>

OctaveUp ==
    /\ isInitialized /\ Mounted
    /\ ~(octaveOffset >= 2)
    /\ octaveOffset' = IF octaveOffset + 1 > 2 THEN 2 ELSE octaveOffset + 1
    /\ event' = [op |-> "setOctaveOffset", arg |-> 0, result |-> "done"]
    /\ steps' = steps + 1
    /\ UNCHANGED <<isInitialized, patch, synthPatch, masterGain, ctxState, currentTime,
                   activeNotes, voices, exported, pc>>

\* the transposition by semitones instead of octaves
FinalNoteBySemitones(note) == note + octaveOffset

\* finalNote (lines 348, 356)
FinalNote(note) == note + (octaveOffset * 12)

\* the test of lines 349 and 357
InRange(finalNote) == finalNote >= 0 /\ finalNote <= 127

\* a handler of the keyboard that returns without a call of the engine
NoEngineCall(handler, note) ==
    /\ event' = [op |-> handler, arg |-> note, result |-> "ignored"]
    /\ steps' = steps + 1
    /\ UNCHANGED <<isInitialized, patch, synthPatch, masterGain, ctxState, currentTime,
                   activeNotes, voices, exported, pc, octaveOffset>>

\* handleNoteOn(note) (lines 346-352), as the Keyboard calls it
handleNoteOn(note) ==
    /\ Mounted
    /\ IF ~isInitialized THEN NoEngineCall("handleNoteOn", note)
       ELSE IF InRange(FinalNote(note)) THEN noteOn(FinalNote(note))
            ELSE NoEngineCall("handleNoteOn", note)

\* handleNoteOff(note) (lines 354-360), as the Keyboard calls it
handleNoteOff(note) ==
    /\ Mounted
    /\ IF ~isInitialized THEN NoEngineCall("handleNoteOff", note)
       ELSE IF InRange(FinalNote(note)) THEN noteOff(FinalNote(note))
            ELSE NoEngineCall("handleNoteOff", note)

\* a handler that is not a handler of a key: no key goes down or up
NoKey == UNCHANGED <<keyMap, held>>

\* the effect of lines 362-386 runs again when isInitialized or octaveOffset
\* has changed: the new listeners start with a new, empty keyMap
Rerun == keyMap' = {} /\ UNCHANGED held

\* the presses in progress of the key of the computer, or of the key under
\* the mouse, that plays note
HeldBy(by, note) == {h \in held : h.by = by /\ h.key = note}

\* lines 368-369 while the engine does not exist: initAudio(), then
\* handleNoteOn(note) finds synthRef.current and calls noteOn(finalNote)
\* on an engine whose patch is the App's patch
KeyStartsEngine(note) ==
    /\ isInitialized' = TRUE
    /\ synthPatch' = patch
    /\ masterGain' = MasterGainValue
    /\ ctxState' = "running"
    /\ IF ~InRange(FinalNote(note))
       THEN /\ UNCHANGED <<activeNotes, voices>>
            /\ event' = [op |-> "handleNoteOn", arg |-> note, result |-> "ignored"]
       ELSE IF activeNotes[FinalNote(note)] # NoVoice
       THEN /\ UNCHANGED <<activeNotes, voices>>
            /\ event' = [op |-> "noteOn", arg |-> FinalNote(note), result |-> "ignored"]
       ELSE LET finalNote == FinalNote(note)
                fresh == [i \in 1..4 |-> NewOperator]
                opParams == patch.operators
                sched == ScheduleOps(fresh, opParams, BaseFreq(finalNote), 1, currentTime)
                routed == IF sched.threw THEN [conns |-> {}, threw |-> TRUE]
                          ELSE Route(AlgorithmCalls(patch.algorithm), 1, {}, opParams)
            IN  /\ voices' = Append(voices, NewVoice(finalNote, patch, sched.ops,
                                                     routed.conns, ~routed.threw))
                /\ activeNotes' = IF routed.threw THEN activeNotes
                                  ELSE [activeNotes EXCEPT ![finalNote] = Len(voices) + 1]
                /\ event' = [op |-> "noteOn", arg |-> finalNote,
                             result |-> IF routed.threw THEN "threw" ELSE "done"]
    /\ steps' = steps + 1
    /\ UNCHANGED <<patch, currentTime, exported, pc, octaveOffset>>

\* handleKeyDown (lines 364-372) for the key that plays note; the keyboard
\* of the computer repeats a key for as long as it is down
handleKeyDown(note, repeat) ==
    /\ Mounted
    /\ repeat <=> HeldBy("key", note) # {}
    /\ IF repeat \/ note \in keyMap
       THEN /\ event' = [op |-> "handleKeyDown", arg |-> note, result |-> "ignored"]
            /\ steps' = steps + 1
            /\ UNCHANGED <<isInitialized, patch, synthPatch, masterGain, ctxState, currentTime,
                           activeNotes, voices, exported, pc, octaveOffset,
                           keyMap, held>>
       ELSE /\ IF isInitialized
               THEN handleNoteOn(note) /\ keyMap' = keyMap \cup {note}
               ELSE KeyStartsEngine(note) /\ keyMap' = {}
            /\ held' = held \cup {[by |-> "key", key |-> note, note |-> FinalNote(note)]}

\* handleKeyUp (lines 373-379) for the key that plays note
handleKeyUp(note) ==
    /\ Mounted
    /\ HeldBy("key", note) # {}
    /\ handleNoteOff(note)
    /\ keyMap' = keyMap \ {note}
    /\ held' = held \ HeldBy("key", note)

\* Keyboard: handleInteractionStart (lines 293-296), the mouse goes down on
\* the key that plays note
handleInteractionStart(note) ==
    /\ isInitialized
    /\ {h \in held : h.by = "mouse"} = {}
    /\ handleNoteOn(note)
    /\ held' = held \cup {[by |-> "mouse", key |-> note, note |-> FinalNote(note)]}
    /\ UNCHANGED keyMap

\* Keyboard: handleInteractionEnd (lines 298-301), the mouse goes up on the
\* key that plays note, or leaves it
handleInteractionEnd(note) ==
    /\ isInitialized
    /\ \A h \in held : h.by = "mouse" => h.key = note
    /\ handleNoteOff(note)
    /\ held' = held \ HeldBy("mouse", note)
    /\ UNCHANGED keyMap

----------------------------------------------------------------------------
(* App: handleImport *)

\* a file whose text is no JSON
BadText == [parses |-> FALSE]
\* a file whose text is the JSON of value
Text(value) == [parses |-> TRUE, value |-> value]
\* the JSON value null
Null == [isNull |-> TRUE]

\* JSON.parse(e.target.result) (line 406)
JSONparse(doc) ==
    IF doc.parses THEN [threw |-> FALSE, value |-> doc.value] ELSE [threw |-> TRUE]

\* the condition of line 407 without its test of the length
AcceptsAnyLength(importedPatch) ==
    /\ "algorithm" \in DOMAIN importedPatch
    /\ importedPatch.algorithm \notin {0, JSONnull}
    /\ "operators" \in DOMAIN importedPatch

\* the condition of line 407; 0, null and a missing property are falsy, an
\* array is truthy whatever its length
Accepts(importedPatch) ==
    /\ "algorithm" \in DOMAIN importedPatch
    /\ importedPatch.algorithm \notin {0, JSONnull}
    /\ "operators" \in DOMAIN importedPatch
    /\ Len(importedPatch.operators) = 4

\* reader.onload of handleImport (lines 404-411), the render and the effect
\* that follow; reading a property of null throws inside the try, and the
\* effect does not run when the render throws
handleImport(doc) ==
    /\ isInitialized /\ Mounted
    /\ LET parsed == JSONparse(doc) IN
       IF parsed.threw \/ parsed.value = Null
       THEN /\ event' = [op |-> "handleImport", arg |-> 0, result |-> "alertError"]
            /\ UNCHANGED <<patch, synthPatch, masterGain>>
       ELSE IF Accepts(parsed.value)
            THEN /\ patch' = parsed.value
                 /\ IF Renders(patch')
                    THEN /\ SyncPatch(patch')
                         /\ event' = [op |-> "handleImport", arg |-> 0,
                                      result |-> "applied"]
                    ELSE /\ UNCHANGED <<synthPatch, masterGain>>
                         /\ event' = [op |-> "handleImport", arg |-> 0,
                                      result |-> "renderError"]
            ELSE /\ event' = [op |-> "handleImport", arg |-> 0, result |-> "alertInvalid"]
                 /\ UNCHANGED <<patch, synthPatch, masterGain>>
    /\ steps' = steps + 1
    /\ UNCHANGED <<isInitialized, ctxState, currentTime, activeNotes, voices, exported, pc,
                   octaveOffset>>

----------------------------------------------------------------------------
(* App: handleExport *)

\* no file has been downloaded
NoFile == [parses |-> FALSE, none |-> TRUE]

\* JSON.stringify of a number: a non-finite number is written as null
JSONnumber(x) == IF IsFinite(x) THEN x ELSE JSONnull

\* JSON.stringify(patch, null, 2) (line 393): every property in its place,
\* the numbers as JSON writes them
JSONstringify(p) ==
    Text([f \in DOMAIN p |->
            IF f = "operators"
            THEN [i \in DOMAIN p.operators |->
                    [g \in DOMAIN p.operators[i] |->
                        IF g = "on" THEN p.operators[i][g]
                        ELSE JSONnumber(p.operators[i][g])]]
            ELSE JSONnumber(p[f])])

\* handleExport (lines 392-398): the text is downloaded as fm-patch.json
handleExport ==
    /\ isInitialized /\ Mounted
    /\ exported' = JSONstringify(patch)
    /\ event' = [op |-> "handleExport", arg |-> 0, result |-> "done"]
    /\ steps' = steps + 1
    /\ UNCHANGED <<isInitialized, patch, synthPatch, masterGain, ctxState, currentTime,
                   activeNotes, voices, pc, octaveOffset>>

\* the file chosen in the import dialog is the one that was downloaded
ImportExported == exported # NoFile /\ handleImport(exported)

----------------------------------------------------------------------------
(* The audio clock *)

\* context.currentTime advances while the context runs
Tick ==
    /\ isInitialized
    /\ ctxState = "running"
    /\ currentTime' = currentTime + TickStep
    /\ event' = [op |-> "tick", arg |-> 0, result |-> "done"]
    /\ steps' = steps + 1
    /\ UNCHANGED <<isInitialized, patch, synthPatch, masterGain, ctxState, activeNotes, voices, exported, pc,
                   octaveOffset>>

----------------------------------------------------------------------------
(* Inputs *)

\* operator parameters as the sliders can set them
OnOp(level, release) == OpParams(TRUE, 100, 0, level, 1, 30, 80, release)

\* the values of the Release slider that are tried
ReleaseInputs == {100}

\* the ids of the algorithms list (lines 205-212)
AlgorithmIds == 1..6

\* the operator panels that are edited, and the algorithms that are selected
EditIds == {1, 3}
AlgorithmInputs == {2, 6}

\* the files that are imported
ImportDocs ==
    { BadText,
      Text(Null),
      Text([algorithm |-> 1]),
      Text([masterGain |-> 70,
            operators |-> << OnOp(10, 50), OnOp(20, 50), OnOp(30, 50), OnOp(40, 50) >>]),
      Text([algorithm |-> 0, masterGain |-> 70,
            operators |-> << OnOp(10, 50), OnOp(20, 50), OnOp(30, 50), OnOp(40, 50) >>]),
      Text([algorithm |-> 2, masterGain |-> 70,
            operators |-> << OnOp(10, 50), OnOp(20, 50), OnOp(30, 50) >>]),
      Text([algorithm |-> 2, masterGain |-> 70,
            operators |-> << OnOp(10, 50), OnOp(20, 50), OnOp(30, 50), OnOp(40, 50),
                             OnOp(50, 50) >>]),
      Text([algorithm |-> 2, masterGain |-> 70, operators |-> << >>]),
      Text([algorithm |-> 6, masterGain |-> 70,
            operators |-> << OnOp(10, 50), OnOp(20, 50), OnOp(30, 50), OnOp(40, 50) >>]),
      Text([algorithm |-> 7,
            operators |-> << OnOp(10, 50), OnOp(20, 50), OnOp(30, 50), OnOp(40, 50) >>]),
      Text([algorithm |-> 1, masterGain |-> 50,
            operators |-> << OnOp(80, Infinity), OnOp(50, 50), OnOp(40, 50), OnOp(99, 50) >>]),
      Text([algorithm |-> 5, masterGain |-> 50,
            operators |-> << OnOp(80, 50), OnOp(50, 50), OnOp(Infinity, 50), OnOp(99, 50) >>]) }

----------------------------------------------------------------------------
(* The application *)

Init ==
    /\ isInitialized = FALSE
    /\ patch = initialPatch
    /\ synthPatch = NoPatch
    /\ masterGain = NoGain
    /\ ctxState = "none"
    /\ currentTime = 0
    /\ activeNotes = [n \in Notes |-> NoVoice]
    /\ voices = << >>
    /\ exported = NoFile
    /\ octaveOffset = 0
    /\ keyMap = {}
    /\ held = {}
    /\ pc = Idle
    /\ event = [op |-> "mount", arg |-> 0, result |-> "done"]
    /\ steps = 0

Next ==
    \/ steps < MaxSteps /\ initAudio /\ Rerun
    \/ \E id \in EditIds : steps < MaxSteps /\ ToggleOn(id) /\ NoKey
    \/ \E id \in EditIds, r \in ReleaseInputs : steps < MaxSteps /\ SlideRelease(id, r) /\ NoKey
    \/ \E a \in AlgorithmInputs : steps < MaxSteps /\ updateAlgorithm(a) /\ NoKey
    \/ \E doc \in ImportDocs : steps < MaxSteps /\ handleImport(doc) /\ NoKey
    \/ \E n \in Notes : steps < MaxSteps /\ noteOn(n) /\ NoKey
    \/ \E n \in Notes : steps < MaxSteps /\ noteOff(n) /\ NoKey
    \/ steps < MaxSteps /\ Tick /\ NoKey

Spec == Init /\ [][Next]_vars

----------------------------------------------------------------------------
(* The patch and its files: edits, imports and exports, without notes *)

NextFile ==
    \/ steps < MaxSteps /\ initAudio /\ Rerun
    \/ \E id \in EditIds : steps < MaxSteps /\ ToggleOn(id) /\ NoKey
    \/ \E id \in EditIds, r \in ReleaseInputs : steps < MaxSteps /\ SlideRelease(id, r) /\ NoKey
    \/ \E a \in AlgorithmInputs : steps < MaxSteps /\ updateAlgorithm(a) /\ NoKey
    \/ \E doc \in ImportDocs : steps < MaxSteps /\ handleImport(doc) /\ NoKey
    \/ steps < MaxSteps /\ handleExport /\ NoKey
    \/ steps < MaxSteps /\ ImportExported /\ NoKey

SpecFile == Init /\ [][NextFile]_vars

----------------------------------------------------------------------------
(* The keyboard: its lowest and its highest key under every octave *)

\* the notes of the keys a and k (lines 286-290)
KeyNotes == {60, 72}

InitKeys ==
    /\ isInitialized = FALSE
    /\ patch = initialPatch
    /\ synthPatch = NoPatch
    /\ masterGain = NoGain
    /\ ctxState = "none"
    /\ currentTime = 0
    /\ activeNotes = [n \in (60 - 24)..(72 + 24) |-> NoVoice]
    /\ voices = << >>
    /\ exported = NoFile
    /\ octaveOffset = 0
    /\ keyMap = {}
    /\ held = {}
    /\ pc = Idle
    /\ event = [op |-> "mount", arg |-> 0, result |-> "done"]
    /\ steps = 0

NextKeys ==
    \/ steps < MaxSteps /\ initAudio /\ Rerun
    \/ steps < MaxSteps /\ OctaveDown /\ Rerun
    \/ steps < MaxSteps /\ OctaveUp /\ Rerun
    \/ \E k \in KeyNotes : steps < MaxSteps /\ isInitialized /\ handleNoteOn(k) /\ NoKey
    \/ \E k \in KeyNotes : steps < MaxSteps /\ isInitialized /\ handleNoteOff(k) /\ NoKey

SpecKeys == InitKeys /\ [][NextKeys]_vars

----------------------------------------------------------------------------
(* The keys of the computer and the mouse, pressed and released while the
   octave changes *)

InitPress == InitKeys

NextPress ==
    \/ steps < MaxSteps /\ initAudio /\ Rerun
    \/ steps < MaxSteps /\ OctaveDown /\ Rerun
    \/ steps < MaxSteps /\ OctaveUp /\ Rerun
    \/ \E k \in KeyNotes, repeat \in BOOLEAN : steps < MaxSteps /\ handleKeyDown(k, repeat)
    \/ \E k \in KeyNotes : steps < MaxSteps /\ handleKeyUp(k)
    \/ \E k \in KeyNotes : steps < MaxSteps /\ handleInteractionStart(k)
    \/ \E k \in KeyNotes : steps < MaxSteps /\ handleInteractionEnd(k)

SpecPress == InitPress /\ [][NextPress]_vars

----------------------------------------------------------------------------
(* The engine under every routing: the patches that the algorithm select, the
   ON/OFF buttons, the Level sliders and an import can set, and then notes *)

\* algorithm values: those of the select, and two that only an import gives
RouteAlgorithms == {-1} \cup AlgorithmIds \cup {7}

\* the levels of the four operators
RouteLevels == { << 80, 50, 40, 99 >>, << 10, 20, 30, 0 >> }

RoutePatch(a, on, level) ==
    [algorithm |-> a,
     masterGain |-> 50,
     operators |-> [i \in 1..4 |-> OpParams(on[i], 100, 0, level[i], 1, 30, 80, 50)]]

InitRoute ==
    /\ isInitialized = TRUE
    /\ \E a \in RouteAlgorithms, on \in [1..4 -> BOOLEAN], level \in RouteLevels :
          patch = RoutePatch(a, on, level)
    /\ synthPatch = patch
    /\ masterGain = MasterGainValue
    /\ ctxState = "running"
    /\ currentTime = 0
    /\ activeNotes = [n \in Notes |-> NoVoice]
    /\ voices = << >>
    /\ exported = NoFile
    /\ octaveOffset = 0
    /\ keyMap = {}
    /\ held = {}
    /\ pc = Idle
    /\ event = [op |-> "handleImport", arg |-> 0, result |-> "applied"]
    /\ steps = 0

\* the note that is played under every routing
RouteNotes == {60}

NextRoute ==
    \/ \E n \in RouteNotes : steps < MaxSteps /\ noteOn(n) /\ NoKey
    \/ \E n \in RouteNotes : steps < MaxSteps /\ noteOff(n) /\ NoKey
    \/ steps < MaxSteps /\ Tick /\ NoKey

SpecRoute == InitRoute /\ [][NextRoute]_vars

----------------------------------------------------------------------------
(* The engine under every envelope: the patches that the Attack, Decay,
   Sustain and Release sliders can set, and then a note *)

\* slider values: attack 0.01, 1 and 2 s, decay 0.3 and 2 s, sustain 0, 0.8
\* and 1, release 0.01, 0.5 and 5 s
EnvAttacks == {1, 100, 200}
EnvDecays == {30, 200}
EnvSustains == {0, 80, 100}
EnvReleases == {1, 50, 500}

\* operators 1 and 4 with the slider values, operator 2 as in initialPatch,
\* operator 3 off
EnvPatch(a, d, s, r) ==
    [algorithm |-> 2,
     masterGain |-> 50,
     operators |-> << OpParams(TRUE, 100, 0, 80, a, d, s, r),
                      OpParams(TRUE, 100, 0, 50, 1, 30, 80, 50),
                      OpParams(FALSE, 500, 0, 40, a, d, s, r),
                      OpParams(TRUE, 100, 0, 99, a, d, s, r) >>]

InitEnv ==
    /\ isInitialized = TRUE
    /\ \E a \in EnvAttacks, d \in EnvDecays, s \in EnvSustains, r \in EnvReleases :
          patch = EnvPatch(a, d, s, r)
    /\ synthPatch = patch
    /\ masterGain = MasterGainValue
    /\ ctxState = "running"
    /\ currentTime = 0
    /\ activeNotes = [n \in Notes |-> NoVoice]
    /\ voices = << >>
    /\ exported = NoFile
    /\ octaveOffset = 0
    /\ keyMap = {}
    /\ held = {}
    /\ pc = Idle
    /\ event = [op |-> "updateOperator", arg |-> 0, result |-> "done"]
    /\ steps = 0

NextEnv ==
    \/ \E n \in RouteNotes : steps < MaxSteps /\ noteOn(n) /\ NoKey
    \/ \E n \in RouteNotes : steps < MaxSteps /\ noteOff(n) /\ NoKey
    \/ steps < MaxSteps /\ Tick /\ NoKey

SpecEnv == InitEnv /\ [][NextEnv]_vars

\* the same notes while the patch is edited between the calls
NextGain ==
    \/ \E n \in RouteNotes : steps < MaxSteps /\ noteOn(n) /\ NoKey
    \/ \E n \in RouteNotes : steps < MaxSteps /\ noteOff(n) /\ NoKey
    \/ \E id \in EditIds : steps < MaxSteps /\ ToggleOn(id) /\ NoKey
    \/ \E id \in EditIds, r \in ReleaseInputs : steps < MaxSteps /\ SlideRelease(id, r) /\ NoKey
    \/ steps < MaxSteps /\ Tick /\ NoKey

\* an attack and a decay of several clock steps, under every sustain
InitGain ==
    /\ InitEnv
    /\ patch.operators[1].attack = 100
    /\ patch.operators[1].decay = 200
    /\ patch.operators[1].release = 500

SpecGain == InitGain /\ [][NextGain]_vars

----------------------------------------------------------------------------
(* The engine under every tuning: the patches that the Ratio and Detune
   sliders can set, and then notes over the whole range *)

\* slider values: ratio 0.01, 1, 5 and 16, detune -50, 0 and 50
ToneRatios == {1, 100, 500, 1600}
ToneDetunes == {0 - 50, 0, 50}

\* the lowest and the highest note, A4 and A5, and two notes an octave apart
ToneNotes == {0, 12, 69, 81, 127}

\* operator 1 with the slider values, operator 2 as in initialPatch,
\* operator 3 off, operator 4 with the opposite detune
TonePatch(ratio, detune) ==
    [algorithm |-> 1,
     masterGain |-> 50,
     operators |-> << OpParams(TRUE, ratio, detune, 80, 1, 30, 80, 50),
                      OpParams(TRUE, 100, 0, 50, 1, 30, 80, 50),
                      OpParams(FALSE, ratio, detune, 40, 1, 30, 80, 50),
                      OpParams(TRUE, ratio, 0 - detune, 99, 1, 30, 80, 50) >>]

InitTone ==
    /\ isInitialized = TRUE
    /\ \E ratio \in ToneRatios, detune \in ToneDetunes :
          patch = TonePatch(ratio, detune)
    /\ synthPatch = patch
    /\ masterGain = MasterGainValue
    /\ ctxState = "running"
    /\ currentTime = 0
    /\ activeNotes = [n \in ToneNotes |-> NoVoice]
    /\ voices = << >>
    /\ exported = NoFile
    /\ octaveOffset = 0
    /\ keyMap = {}
    /\ held = {}
    /\ pc = Idle
    /\ event = [op |-> "updateOperator", arg |-> 0, result |-> "done"]
    /\ steps = 0

NextTone ==
    \E n \in ToneNotes : steps < MaxSteps /\ noteOn(n) /\ NoKey

SpecTone == InitTone /\ [][NextTone]_vars

----------------------------------------------------------------------------
(* The engine beside the rendering thread: a note under every attack time,
   its noteOff one call at a time, a render quantum at any point *)

InitRender ==
    /\ InitEnv
    /\ patch.operators[1].decay = 30
    /\ patch.operators[1].sustain = 80
    /\ patch.operators[1].release = 50

NextRender ==
    \/ \E n \in RouteNotes : steps < MaxSteps /\ pc = Idle /\ noteOn(n) /\ NoKey
    \/ \E n \in RouteNotes : steps < MaxSteps /\ noteOffBegin(n) /\ NoKey
    \/ ReleaseCall /\ NoKey
    \/ Render /\ NoKey
    \/ steps < MaxSteps /\ pc = Idle /\ Tick /\ NoKey

SpecRender == InitRender /\ [][NextRender]_vars

----------------------------------------------------------------------------
(* What the claims speak of *)

VoiceIds == 1..Len(voices)

\* the voices of note n between their activeNotes.set and activeNotes.delete
LiveVoices(n) == {v \in VoiceIds : voices[v].note = n /\ voices[v].live}

\* the voices whose noteOn ran to its end
Built(v) == voices[v].live \/ voices[v].offDone

\* stop() has been called on the oscillator
StopScheduled(op) == op.stopAt # NoStop

\* the release ramp of an operator: the last two events of its timeline
HasReleaseRamp(op, from, to) ==
    /\ Len(op.env) >= 2
    /\ op.env[Len(op.env)].kind = "ramp"
    /\ op.env[Len(op.env)].value = 0
    /\ op.env[Len(op.env)].time = to
    /\ op.env[Len(op.env) - 1].kind = "set"
    /\ op.env[Len(op.env) - 1].time = from

----------------------------------------------------------------------------
(* C1 *)

\* C1: in every reachable state the registry holds at most one live voice per
\* note number, and the live voices of a note are exactly what the registry
\* holds for it; so a second noteOn(n) leaves exactly one live voice of n.
C1_OneLiveVoicePerNote ==
    \A n \in Notes :
        /\ Cardinality(LiveVoices(n)) <= 1
        /\ LiveVoices(n) = (IF activeNotes[n] = NoVoice THEN {} ELSE {activeNotes[n]})

\* noteOn(n) has just run on a note that was live, and n has one live voice
C1_Witness ==
    /\ event.op = "noteOn" /\ event.result = "ignored"
    /\ Cardinality(LiveVoices(event.arg)) = 1
    /\ \E m \in Notes \ {event.arg} : Cardinality(LiveVoices(m)) = 1

----------------------------------------------------------------------------
(* C2 *)

\* C2: the patch in effect at noteOn(n) governs the voice for its whole life:
\* once noteOff(n) has run, the operators that were released are those the
\* patch of noteOn had on, each with the release time of that patch.
C2_SnapshotGovernsRelease ==
    \A v \in VoiceIds :
        voices[v].offDone =>
            \A i \in 1..4 :
                LET op == voices[v].ops[i]
                    params == voices[v].onPatch.operators[i]
                IN  /\ StopScheduled(op) <=> IsOn(params)
                    /\ StopScheduled(op) =>
                          HasReleaseRamp(op, voices[v].offTime,
                                         voices[v].offTime + params.release)

----------------------------------------------------------------------------
(* C3 *)

\* C3: once noteOff has been processed for a voice, every oscillator that was
\* started for it has its stop scheduled, release + 0.5 s after the release
\* was triggered, so that no oscillator of the voice renders for ever.
C3_EveryOscillatorStops ==
    \A v \in VoiceIds :
        voices[v].offDone =>
            \A i \in 1..4 :
                /\ StopScheduled(voices[v].ops[i])
                /\ \E r \in 0..500 :
                      voices[v].ops[i].stopAt = voices[v].offTime + r + StopMargin

----------------------------------------------------------------------------
(* C4 *)

\* C4: noteOn(n) on a note that has a live voice changes neither the registry
\* nor any operator, connection, envelope or stop time, nor the patch.
C4_NoteOnLiveIsNoOp ==
    [][(event'.op = "noteOn" /\ activeNotes[event'.arg] # NoVoice)
          => /\ activeNotes' = activeNotes
             /\ voices' = voices
             /\ patch' = patch /\ synthPatch' = synthPatch
             /\ event'.result = "ignored"]_vars

\* noteOn(n) has just been ignored while the envelopes of the voice of n were
\* under way
C4_Witness ==
    /\ event.op = "noteOn" /\ event.result = "ignored"
    /\ activeNotes[event.arg] # NoVoice
    /\ voices[activeNotes[event.arg]].onTime < currentTime
    /\ voices[activeNotes[event.arg]].conns # {}

----------------------------------------------------------------------------
(* C5 *)

\* C5: noteOff(n) on a note with no live voice raises nothing and changes
\* neither the registry, nor any operator's envelope or stop time, nor the
\* patch.
C5_NoteOffUnknownIsNoOp ==
    [][(event'.op = "noteOff" /\ activeNotes[event'.arg] = NoVoice)
          => /\ activeNotes' = activeNotes
             /\ voices' = voices
             /\ patch' = patch /\ synthPatch' = synthPatch
             /\ event'.result = "ignored"]_vars

\* noteOff(n) has just been ignored while another note was live and a voice
\* of n itself was in its release tail
C5_Witness ==
    /\ event.op = "noteOff" /\ event.result = "ignored"
    /\ \E m \in Notes \ {event.arg} : activeNotes[m] # NoVoice
    /\ \E v \in VoiceIds : voices[v].note = event.arg /\ voices[v].offDone

----------------------------------------------------------------------------
(* C6 *)

\* C6: noteOff(n) on a live voice removes n from the registry at once, so
\* that the next noteOn(n) is not ignored.
C6_NoteOffFreesTheNote ==
    [][(event'.op = "noteOff" /\ activeNotes[event'.arg] # NoVoice)
          => activeNotes'[event'.arg] = NoVoice]_vars

----------------------------------------------------------------------------
(* C10 *)

\* the documents the claim speaks of: no JSON, or no algorithm, or no
\* operators, or operators whose length is not 4
C10_Malformed(doc) ==
    \/ ~doc.parses
    \/ doc.value = Null
    \/ "algorithm" \notin DOMAIN doc.value
    \/ "operators" \notin DOMAIN doc.value
    \/ Len(doc.value.operators) # 4

\* C10: importing such a document reports an error and leaves the current
\* patch, in the App and in the engine, as it was.
C10_RejectedImportKeepsPatch ==
    [][\A doc \in ImportDocs :
          (handleImport(doc) /\ C10_Malformed(doc))
             => /\ patch' = patch /\ synthPatch' = synthPatch
                /\ event'.result \in {"alertInvalid", "alertError"}]_vars

\* an import has just been rejected, after the patch had been edited
C10_Witness ==
    /\ event.op = "handleImport" /\ event.result = "alertInvalid"
    /\ patch # initialPatch
    /\ synthPatch = patch

----------------------------------------------------------------------------
(* C7 *)

Mod(m, c) == [kind |-> "mod", src |-> m, dst |-> c]
Car(c) == [kind |-> "car", src |-> c, dst |-> Master]

\* the fixed topology table, one row per algorithm
TopologyTable(a) ==
    CASE a = 1 -> { Mod(0, 1), Mod(1, 2), Mod(2, 3), Car(3) }
      [] a = 2 -> { Mod(0, 1), Car(1), Mod(2, 3), Car(3) }
      [] a = 3 -> { Mod(0, 2), Mod(1, 2), Mod(2, 3), Car(3) }
      [] a = 4 -> { Mod(0, 3), Mod(1, 3), Mod(2, 3), Car(3) }
      [] a = 5 -> { Mod(0, 1), Car(1), Car(2), Car(3) }
      [] a = 6 -> { Car(0), Car(1), Car(2), Car(3) }

\* the connections of a voice without their gains
Wiring(v) == {[kind |-> c.kind, src |-> c.src, dst |-> c.dst] : c \in voices[v].conns}

\* operator index i (from 0) is on in the patch of the voice's noteOn
OnAt(v, i) == voices[v].onPatch.operators[i + 1].on

\* the rows of the table whose end points are all on
TableWiring(v, a) ==
    {c \in TopologyTable(a) : OnAt(v, c.src) /\ (c.kind = "mod" => OnAt(v, c.dst))}

\* C7: for every algorithm in 1..6 and every combination of the on flags the
\* connections built for a voice are exactly those of the algorithm's row of
\* the topology table whose end points are all on.
C7_WiringFollowsTable ==
    \A v \in VoiceIds :
        (Built(v) /\ voices[v].onPatch.algorithm \in 1..6)
            => Wiring(v) = TableWiring(v, voices[v].onPatch.algorithm)

\* a voice of algorithm 1 with operator 3 off: 1->2 is there, 2->3 and 3->4
\* are not
C7_Witness ==
    \E v \in VoiceIds :
        /\ Built(v) /\ voices[v].onPatch.algorithm = 1
        /\ OnAt(v, 0) /\ OnAt(v, 1) /\ ~OnAt(v, 2) /\ OnAt(v, 3)
        /\ Wiring(v) = { Mod(0, 1), Car(3) }

----------------------------------------------------------------------------
(* C8 *)

\* C8: for an algorithm value outside 1..6 the connections built for a voice
\* are those of algorithm 6: a carrier connection for each operator that is
\* on, and no modulator connection.
C8_UnknownAlgorithmIsAdditive ==
    \A v \in VoiceIds :
        (Built(v) /\ voices[v].onPatch.algorithm \notin 1..6)
            => Wiring(v) = {Car(i) : i \in {j \in 0..3 : OnAt(v, j)}}

\* a voice of an algorithm outside 1..6 with some operators on and one off
C8_Witness ==
    \E v \in VoiceIds :
        /\ Built(v) /\ voices[v].onPatch.algorithm \notin 1..6
        /\ Cardinality(Wiring(v)) = 3

----------------------------------------------------------------------------
(* C9 *)

\* the level of operator index i (from 0) in the patch of the voice's noteOn
LevelAt(v, i) == voices[v].onPatch.operators[i + 1].level

\* C9: every modulator connection m->c has gain level(m) * 5000 and every
\* carrier connection of c has gain level(c): the gain of a connection is a
\* function of the level of its source operator alone.
C9_GainsFollowLevels ==
    \A v \in VoiceIds :
        \A c \in voices[v].conns :
            /\ c.kind = "mod" => c.gain = LevelAt(v, c.src) * 5000
            /\ c.kind = "car" => c.gain = LevelAt(v, c.src)

\* a voice of algorithm 5 with levels 0.8, 0.5, 0.4, 0.99: one modulator
\* connection of gain 4000 and three carrier connections of gains 0.5, 0.4, 0.99
C9_Witness ==
    \E v \in VoiceIds :
        /\ voices[v].onPatch.algorithm = 5
        /\ {c.gain : c \in {d \in voices[v].conns : d.kind = "mod"}} = {400000}
        /\ {c.gain : c \in {d \in voices[v].conns : d.kind = "car"}} = {50, 40, 99}

----------------------------------------------------------------------------
(* C11 *)

\* C11: importing the file that the export of the current patch wrote is
\* accepted and gives a current patch equal to the one exported.
C11_ExportImportRoundTrip ==
    [][(exported = JSONstringify(patch) /\ ImportExported)
          => (event'.result = "applied" /\ patch' = patch)]_vars

----------------------------------------------------------------------------
(* C12 *)

\* the gain of the attack, decay, sustain curve of params, dt after note-on
EnvelopeAt(params, dt) ==
    IF dt < params.attack
    THEN (One * dt) \div params.attack
    ELSE IF dt < params.attack + params.decay
         THEN One + ((params.sustain - One) * (dt - params.attack)) \div params.decay
         ELSE params.sustain

\* the value the release ramp of an operator starts from
ReleaseStart(op) == op.env[Len(op.env) - 1].value

\* C12: once noteOff has run, the release ramp of every operator that is on
\* starts at the release instant from the gain its envelope had reached then,
\* also in the middle of the attack or of the decay, and goes to 0 over the
\* release time.
C12_ReleaseFromReachedGain ==
    \A v \in VoiceIds :
        voices[v].offDone =>
            \A i \in 1..4 :
                LET op == voices[v].ops[i]
                    params == voices[v].onPatch.operators[i]
                IN  IsOn(params) =>
                       /\ HasReleaseRamp(op, voices[v].offTime,
                                         voices[v].offTime + params.release)
                       /\ ReleaseStart(op) =
                             EnvelopeAt(params, voices[v].offTime - voices[v].onTime)

----------------------------------------------------------------------------
(* C13 *)

\* C13: the base frequency is 440 Hz for note 69 and 880 Hz for note 81, it
\* doubles with every 12 notes and grows by the twelfth root of 2 (5.9 %,
\* to the thousandth) with every note, over the notes 0..127; and the
\* frequency set on every operator that is on is the base frequency of the
\* voice's note times ratio * (1 + detune / 1000) of that operator.
C13_FrequenciesFollowTheFormula ==
    /\ BaseFreq(69) = 440 * Hz
    /\ BaseFreq(81) = 880 * Hz
    /\ \A n \in 0..115 : BaseFreq(n + 12) = 2 * BaseFreq(n)
    /\ \A n \in 0..126 :
          (BaseFreq(n + 1) - BaseFreq(n)) \div (BaseFreq(n) \div 1000) \in 58..60
    /\ \A v \in VoiceIds :
          \A i \in 1..4 :
              LET params == voices[v].onPatch.operators[i] IN
              (Built(v) /\ IsOn(params)) =>
                  voices[v].ops[i].freq =
                      [base |-> BaseFreq(voices[v].note),
                       tuning |-> params.ratio * (1000 + params.detune)]

\* voices of A4 and of the highest note, the first operator at ratio 5 and
\* detune -50: 440 Hz and 12543.85 Hz, each times 5 * 0.95
C13_Witness ==
    \E v, w \in VoiceIds :
        /\ Built(v) /\ Built(w)
        /\ voices[v].note = 69 /\ voices[w].note = 127
        /\ voices[v].ops[1].freq = [base |-> 440 * Hz, tuning |-> 475000]
        /\ voices[w].ops[1].freq = [base |-> 2 * 2 * 2 * 2 * 440 * 1782 * 64,
                                    tuning |-> 475000]

----------------------------------------------------------------------------
(* C15 *)

\* C15: while a voice is held, the gain of every operator that is on is 0 at
\* note-on, 1.0 attack seconds later, sustain attack + decay seconds later
\* and from then on, and at every instant in between it is on the straight
\* lines between these points.
C15_HeldEnvelope ==
    \A v \in VoiceIds :
        voices[v].live =>
            \A i \in 1..4 :
                LET env == voices[v].ops[i].env
                    params == voices[v].onPatch.operators[i]
                    t0 == voices[v].onTime
                    tD == t0 + params.attack + params.decay
                IN  IsOn(params) =>
                       /\ GainValue(env, t0) = 0
                       /\ GainValue(env, t0 + params.attack) = One
                       /\ GainValue(env, tD) = params.sustain
                       /\ \A k \in 1..MaxSteps :
                             GainValue(env, tD + k * TickStep) = params.sustain
                       /\ GainValue(env, currentTime) =
                             EnvelopeAt(params, currentTime - t0)

\* a held voice in the middle of its decay, its gain between sustain and 1.0,
\* and another one that has been at sustain for a second
C15_Witness ==
    /\ \E v \in VoiceIds :
          LET params == voices[v].onPatch.operators[1] IN
          /\ voices[v].live
          /\ currentTime - voices[v].onTime > params.attack
          /\ GainValue(voices[v].ops[1].env, currentTime) > params.sustain
          /\ GainValue(voices[v].ops[1].env, currentTime) < One
    /\ \E v \in VoiceIds :
          LET params == voices[v].onPatch.operators[2] IN
          /\ voices[v].live
          /\ currentTime - voices[v].onTime >= params.attack + params.decay + 100
          /\ GainValue(voices[v].ops[2].env, currentTime) = params.sustain

----------------------------------------------------------------------------
(* C14 *)

\* the breakpoints of scheduleEnvelope are all on the timeline
Scheduled(env) ==
    /\ Len(env) >= 3
    /\ env[1].kind = "set" /\ env[2].kind = "ramp" /\ env[3].kind = "ramp"

\* the timeline ends with the release ramp
Released(env) ==
    /\ Len(env) >= 2
    /\ env[Len(env)].kind = "ramp" /\ env[Len(env)].value = 0
    /\ env[Len(env) - 1].kind = "set"

\* breakpoints of scheduleEnvelope have been cancelled and the release ramp
\* is not there yet
Torn(env) == env # << >> /\ ~Scheduled(env) /\ ~Released(env)

\* C14: no render quantum reads an envelope whose pending breakpoints are
\* cancelled and whose release ramp is not yet scheduled.
C14_ReleaseIsIndivisible ==
    [][Render => \A v \in VoiceIds : \A i \in 1..4 : ~Torn(voices[v].ops[i].env)]_vars

----------------------------------------------------------------------------
(* C16 *)

\* C16: every operator that has been released has its oscillator's stop
\* scheduled 0.5 s after the end of a release ramp, strictly later than the
\* instant the ramp reaches 0, and at the stop instant its gain is 0.
C16_StopAfterReleaseEnds ==
    \A v \in VoiceIds :
        \A i \in 1..4 :
            LET op == voices[v].ops[i] IN
            Released(op.env) =>
                /\ StopScheduled(op)
                /\ \E k \in 2..Len(op.env) :
                      /\ op.env[k].kind = "ramp" /\ op.env[k].value = 0
                      /\ op.env[k - 1].kind = "set"
                      /\ op.env[k].time < op.stopAt
                      /\ op.stopAt = op.env[k].time + StopMargin
                /\ GainValue(op.env, op.stopAt) = 0

\* an operator released over 5 s from a gain above 0, in its tail: the ramp
\* ends 5 s after the release, the oscillator stops 5.5 s after it
C16_Witness ==
    \E v \in VoiceIds :
        /\ voices[v].offDone
        /\ voices[v].offTime < currentTime
        /\ HasReleaseRamp(voices[v].ops[1], voices[v].offTime, voices[v].offTime + 500)
        /\ ReleaseStart(voices[v].ops[1]) > 0
        /\ voices[v].ops[1].stopAt = voices[v].offTime + 550

----------------------------------------------------------------------------
(* C17 *)

\* C17: noteOff on a note that has a live voice raises nothing, leaves the
\* stop time of an oscillator that has already stopped as it is, and removes
\* the note from the registry.
C17_NoteOffCompletes ==
    [][(event'.op = "noteOff" /\ activeNotes[event'.arg] # NoVoice)
          => /\ event'.result = "done"
             /\ activeNotes'[event'.arg] = NoVoice
             /\ \A i \in 1..4 :
                   LET v == activeNotes[event'.arg]
                       op == voices[v].ops[i]
                   IN  (StopScheduled(op) /\ op.stopAt <= currentTime)
                          => voices'[v].ops[i].stopAt = op.stopAt]_vars

----------------------------------------------------------------------------
(* C18 *)

\* C18: noteOn(m) and noteOff(m) leave the registry entry of every other
\* note, and the operators, connections, envelopes and stop times of every
\* voice of another note, as they were.
C18_VoicesAreIndependent ==
    [][(event'.op \in {"noteOn", "noteOff"})
          => /\ \A n \in Notes \ {event'.arg} : activeNotes'[n] = activeNotes[n]
             /\ \A v \in VoiceIds :
                   voices[v].note # event'.arg => voices'[v] = voices[v]]_vars

\* noteOff(m) has just released the voice of m, which had started while the
\* voice of another note was sounding and had sounded for a while itself; the
\* other voice is still live
C18_Witness ==
    /\ event.op = "noteOff" /\ event.result = "done"
    /\ \E n \in Notes \ {event.arg} :
          /\ activeNotes[n] # NoVoice
          /\ \E v \in VoiceIds :
                /\ voices[v].note = event.arg /\ voices[v].offTime = currentTime
                /\ voices[activeNotes[n]].onTime < voices[v].onTime
                /\ voices[v].onTime < voices[v].offTime

----------------------------------------------------------------------------
(* C19 *)

\* C19: the octave stays within -2..2, and for every key a press or a
\* release calls the engine with the key's note plus 12 times the octave
\* when that is within 0..127, and does not call the engine otherwise.
C19_OnlyNotesInRangeReachTheEngine ==
    [][/\ octaveOffset' \in (0 - 2)..2
       /\ \A n \in (0 - 140)..280 : InRange(n) <=> n \in 0..127
       /\ \A k \in KeyNotes :
             (handleNoteOn(k) \/ handleNoteOff(k))
                => LET finalNote == k + octaveOffset * 12 IN
                   IF finalNote \in 0..127
                   THEN /\ event'.op \in {"noteOn", "noteOff"}
                        /\ event'.arg = finalNote
                   ELSE /\ event'.op \notin {"noteOn", "noteOff"}
                        /\ activeNotes' = activeNotes /\ voices' = voices]_vars

\* the highest key has just been pressed two octaves up, note 96, while the
\* voice of a key pressed at octave 0 sounds
C19_Witness ==
    /\ event = [op |-> "noteOn", arg |-> 96, result |-> "done"]
    /\ octaveOffset = 2
    /\ activeNotes[96] # NoVoice
    /\ activeNotes[60] # NoVoice

----------------------------------------------------------------------------
(* C20 *)

\* C20: under every patch that the application hands to the engine, the
\* import-validated ones included, a noteOn(n) for a note that does not
\* sound completes and registers its voice under n, and the oscillators
\* that it has started belong to a registered voice.
C20_NoteOnCompletesAndRegisters ==
    [][(event'.op = "noteOn" /\ steps' = steps + 1 /\ activeNotes[event'.arg] = NoVoice)
          => /\ event'.result = "done"
             /\ activeNotes'[event'.arg] # NoVoice
             /\ \A v \in DOMAIN voices' \ DOMAIN voices :
                   activeNotes'[voices'[v].note] = v]_vars

----------------------------------------------------------------------------
(* C21 *)

\* C21: the release of a key of the computer, or of the key under the mouse,
\* calls noteOff with the note that the press of that key has forwarded,
\* also when the octave has changed in between; and when no key is down
\* the registry holds no voice.
C21_ReleaseMatchesPress ==
    [][/\ \A h \in held :
             \/ h.by = "key" /\ handleKeyUp(h.key)
             \/ h.by = "mouse" /\ handleInteractionEnd(h.key)
             => event'.op = "noteOff" /\ event'.arg = h.note
       /\ held' = {} => \A n \in DOMAIN activeNotes' : activeNotes'[n] = NoVoice]_vars

----------------------------------------------------------------------------
(* C22 *)

\* C22: once the engine exists its master gain is 0.5, whatever patch the
\* engine holds and whatever has been played.
C22_MasterGainIsHalf == isInitialized => masterGain * 2 = One

\* a note has been played and released under an imported patch whose
\* masterGain field is not 0.5
C22_Witness ==
    /\ synthPatch # NoPatch
    /\ "masterGain" \in DOMAIN synthPatch
    /\ synthPatch.masterGain * 2 # One
    /\ event.op = "noteOff" /\ event.result = "done"
    /\ masterGain * 2 = One

----------------------------------------------------------------------------
(* C23 *)

\* the times at which a timeline is looked at: its breakpoints, and every
\* half second from the start to beyond the longest release
SampleTimes(env) ==
    {env[k].time : k \in DOMAIN env} \cup {j * TickStep : j \in 0..(4 * MaxSteps)}

\* C23: when every sustain of the patch lies in [0,1], the gain of every
\* operator's envelope lies in [0,1] at every time, and the gain of an
\* operator that was off at the note-on is 0 at every time.
C23_EnvelopeGainInUnitRange ==
    (\A i \in 1..4 : synthPatch.operators[i].sustain \in 0..One)
       => \A v \in VoiceIds :
             \A i \in 1..4 :
                LET env == voices[v].ops[i].env IN
                \A t \in SampleTimes(env) :
                   /\ GainValue(env, t) >= 0
                   /\ GainValue(env, t) <= One
                   /\ ~voices[v].onPatch.operators[i].on => GainValue(env, t) = 0

\* a voice has been released in the middle of its attack, after an operator
\* that was off at its note-on has been switched on
C23_Witness ==
    \E v \in VoiceIds :
        /\ voices[v].offDone
        /\ voices[v].offTime - voices[v].onTime < voices[v].onPatch.operators[1].attack
        /\ voices[v].offTime > voices[v].onTime
        /\ ~voices[v].onPatch.operators[3].on
        /\ synthPatch.operators[3].on
        /\ Len(voices[v].ops[3].env) > 0
        /\ GainValue(voices[v].ops[1].env, voices[v].offTime) \in 1..(One - 1)

====
